---- MODULE Spec2Model ----
(***************************************************************************)
(* academic-api: enrollment eligibility (can_enroll), the enrollment       *)
(* lifecycle (enroll, grade, close_subject, assign_instructor), user       *)
(* creation and role assignment (create_user, assign_role), the role gates *)
(* of the endpoints and the purge of notifications, modelled over the      *)
(* relational store.                                                       *)
(***************************************************************************)
EXTENDS Integers, Sequences, FiniteSets, TLC

\* ---------------------------------------------------------------- bounds
\* cap on the length of the notification table (one row per successful grade)
MaxNotifications == 2
\* cap on the number of rows of the Enrollment table
MaxRows == 3
\* the last day the clock reaches
MaxNow == 124

\* ------------------------------------------------------------- the store
Users == {"u1", "u2", "u3", "u4"}
Subjects == {"s1", "s2", "s3"}
NoUser == "none"
NoRole == "norole"
ROLE_TYPES == {"admin", "instructor", "student"}
STATES == {"enrolled", "approved", "failed", "closed"}
NoGrade == -1
NoProfile == -1
StudentDefaultCredits == 16
InstructorDefaultCredits == 20
\* timedelta(days=90) of the purge
RetentionDays == 90

\* Subject.credits and Subject.prerequisites of the catalogue
CatalogueCredits == [s \in Subjects |-> CASE s = "s1" -> 10 [] s = "s2" -> 6 [] OTHER -> 8]
prerequisites == [s \in Subjects |-> IF s = "s3" THEN {"s1", "s2"} ELSE {}]

\* a grade value <<k, e>> stands for the number k/100 + e*d, with d a
\* positive residue smaller than any half step (a float such as 2.95 is not
\* exactly 295/100, and Decimal(value) keeps the residue); grades are stored
\* in tenths
GradeInputs == {<<290, 0>>, <<300, 0>>, <<510, 0>>}

\* users is the set of ids of the User table, role the role reference of each
\* (NoRole when null), student and instructor the max_credits_per_term of the
\* profile rows (NoProfile when there is none) and profile_seq the primary keys
\* handed out so far by the Student and the Instructor table; now is the
\* date, in days, and a notification row carries the date of its creation;
\* credits is the credits column of the Subject table; requests holds the
\* requests being served concurrently, each with its position in its handler
\* and the values it has read (empty where calls run one at a time)
VARIABLES now, users, role, student, instructor, profile_seq, assigned_instructor,
          enrollments, next_id, notifications, last, credits, requests

vars == <<now, users, role, student, instructor, profile_seq, assigned_instructor,
          enrollments, next_id, notifications, last, credits, requests>>

store == <<now, users, role, student, instructor, profile_seq, assigned_instructor,
           enrollments, next_id, notifications, credits>>

\* the outcome of the last call: the operation, the grade value it was given
\* (for a statistics call the two rates it computed, in hundredths, and for a
\* gpa call the average as the pair <<sum of the grades, their number>>),
\* its result (return value, denial reason or exception) and the id of the
\* enrollment it returned (0 when it returned none)
NoValue == <<0, 0>>
NoCall == [op |-> "none", value |-> NoValue, result |-> "none", ret |-> 0]

Call(op, v, result, ret) == [op |-> op, value |-> v, result |-> result, ret |-> ret]

\* no request is in flight
NoRequests == <<>>

\* a call served alone answers: no subject and no other request is touched
Returns(op, v, result, ret) ==
    /\ last' = Call(op, v, result, ret)
    /\ UNCHANGED <<credits, requests>>

\* ------------------------------------------------------------ can_enroll
RECURSIVE SumCredits(_)
SumCredits(rows) ==
    IF rows = {} THEN 0
    ELSE LET e == CHOOSE x \in rows : TRUE
         IN credits[e.subject] + SumCredits(rows \ {e})

enrolled_subjects(u) == {e \in enrollments : e.student = u /\ e.state = "enrolled"}

\* rule 2 with the state filter widened to every state
already_taken_any_state(u, s) ==
    \E e \in enrollments : e.student = u /\ e.subject = s

\* rule 2: an enrollment of the pair in state approved, enrolled or closed
already_taken(u, s) ==
    \E e \in enrollments : e.student = u /\ e.subject = s
                           /\ e.state \in {"approved", "enrolled", "closed"}

\* the approved set taken as every graded enrollment that is not failed
approved_ids_or_closed(u) ==
    {e.subject : e \in {x \in enrollments : x.student = u /\ x.state \in {"approved", "closed"}}}

\* the subject ids of the user's enrollments in state approved
approved_ids(u) == {e.subject : e \in {x \in enrollments : x.student = u /\ x.state = "approved"}}

\* rule 3: some prerequisite is not among the approved subject ids
missing_prerequisites(u, s) == \E p \in prerequisites[s] : p \notin approved_ids(u)

\* rule 4 without the credits of the subject being requested
credits_exceeded_without_subject(u, s) ==
    LET max_credits == IF student[u] # NoProfile THEN student[u] ELSE 0
        credits_used == SumCredits(enrolled_subjects(u))
    IN credits_used > max_credits

\* rule 4: credits in state enrolled plus the subject's exceed the profile's limit
credits_exceeded(u, s) ==
    LET max_credits == IF student[u] # NoProfile THEN student[u] ELSE 0
        credits_used == SumCredits(enrolled_subjects(u))
    IN credits_used + credits[s] > max_credits

\* can_enroll with the credit rule evaluated before the prerequisite rule
can_enroll_credits_first(u, s) ==
    IF role[u] # "student" THEN <<FALSE, "not authorized">>
    ELSE IF already_taken(u, s) THEN <<FALSE, "already taken or enrolled">>
    ELSE IF credits_exceeded(u, s) THEN <<FALSE, "credits exceeded">>
    ELSE IF missing_prerequisites(u, s) THEN <<FALSE, "missing prerequisites">>
    ELSE <<TRUE, "ok">>

\* Subject.objects.get(id=subject_id) raises Subject.DoesNotExist for an id
\* without a row, the absent id (None) included; nothing on the way of the
\* request catches it, so the outcome "DoesNotExist" is the exception leaving
\* the view and not a returned pair
can_enroll(u, s) ==
    IF role[u] # "student" THEN <<FALSE, "not authorized">>
    ELSE IF s \notin Subjects THEN <<FALSE, "DoesNotExist">>
    ELSE IF already_taken(u, s) THEN <<FALSE, "already taken or enrolled">>
    ELSE IF missing_prerequisites(u, s) THEN <<FALSE, "missing prerequisites">>
    ELSE IF credits_exceeded(u, s) THEN <<FALSE, "credits exceeded">>
    ELSE <<TRUE, "ok">>

\* ---------------------------------------------------------------- enroll
\* get_or_create with the default state taken into the lookup
get_or_create_enrolled_only(u, s) ==
    LET found == {e \in enrollments : e.student = u /\ e.subject = s /\ e.state = "enrolled"}
    IN IF found # {}
       THEN [rows |-> enrollments, row |-> CHOOSE e \in found : TRUE, created |-> FALSE]
       ELSE LET new == [id |-> next_id, student |-> u, subject |-> s,
                        state |-> "enrolled", grade |-> NoGrade]
            IN [rows |-> enrollments \cup {new}, row |-> new, created |-> TRUE]

\* update_or_create in place of get_or_create: an existing row is reset to
\* the defaults
get_or_create_reset(u, s) ==
    LET found == {e \in enrollments : e.student = u /\ e.subject = s}
    IN IF found # {}
       THEN LET old == CHOOSE e \in found : TRUE
                reset == [old EXCEPT !.state = "enrolled", !.grade = NoGrade]
            IN [rows |-> (enrollments \ {old}) \cup {reset}, row |-> reset, created |-> FALSE]
       ELSE LET new == [id |-> next_id, student |-> u, subject |-> s,
                        state |-> "enrolled", grade |-> NoGrade]
            IN [rows |-> enrollments \cup {new}, row |-> new, created |-> TRUE]

\* Enrollment.objects.get_or_create(student, subject, defaults state=enrolled)
get_or_create(u, s) ==
    LET found == {e \in enrollments : e.student = u /\ e.subject = s}
    IN IF found # {}
       THEN [rows |-> enrollments, row |-> CHOOSE e \in found : TRUE, created |-> FALSE]
       ELSE LET new == [id |-> next_id, student |-> u, subject |-> s,
                        state |-> "enrolled", grade |-> NoGrade]
            IN [rows |-> enrollments \cup {new}, row |-> new, created |-> TRUE]

\* the body of services.enroll, recorded under the name of the calling entry
enroll_as(op, u, s, result) ==
    LET r == get_or_create(u, s)
    IN /\ r.created => Cardinality(enrollments) < MaxRows
       /\ enrollments' = r.rows
       /\ next_id' = IF r.created THEN next_id + 1 ELSE next_id
       /\ Returns(op, NoValue, result, r.row.id)
       /\ UNCHANGED <<now, users, role, student, instructor, profile_seq,
                      assigned_instructor, notifications>>

enroll(u, s) == enroll_as("enroll", u, s, "ok")

\* the decorator running the view before it looks at the answer of can_enroll
validate_prerequisites_view_first(u, s) ==
    LET c == can_enroll(u, s)
    IN IF ~c[1]
       THEN enroll_as("enroll_request", u, s, c[2])
       ELSE enroll_as("enroll_request", u, s, "created")

\* the enroll endpoint: validate_prerequisites, then StudentViewSet.enroll
validate_prerequisites(u, s) ==
    LET c == can_enroll(u, s)
    IN IF ~c[1]
       THEN /\ Returns("enroll_request", NoValue, c[2], 0)
            /\ UNCHANGED store
       ELSE enroll_as("enroll_request", u, s, "created")

\* ----------------------------------------------------------------- grade
\* the range check with the lower bound forgotten
invalid_range_upper_only(v) == v[1] > 500 \/ (v[1] = 500 /\ v[2] > 0)

\* value < 0 or value > 5
invalid_range(v) ==
    \/ v[1] < 0 \/ (v[1] = 0 /\ v[2] < 0)
    \/ v[1] > 500 \/ (v[1] = 500 /\ v[2] > 0)

\* rounding by truncation to the tenth below
round_grade_truncate(v) == v[1] \div 10

\* round(Decimal(value), 1): quantize to tenths, ties to the even tenth
round_grade(v) ==
    LET q == v[1] \div 10
        r == v[1] % 10
    IN IF r < 5 THEN q
       ELSE IF r > 5 THEN q + 1
       ELSE IF v[2] > 0 THEN q + 1
       ELSE IF v[2] < 0 THEN q
       ELSE IF q % 2 = 0 THEN q ELSE q + 1

\* the approval threshold taken as strict
grade_state_strict(g) == IF g > 30 THEN "approved" ELSE "failed"

\* "approved" if enrollment.grade >= 3 else "failed"
grade_state(g) == IF g >= 30 THEN "approved" ELSE "failed"

\* the lookup by id alone, without the instructor filter
grade_lookup_any_instructor(i, eid) == {e \in enrollments : e.id = eid}

\* Enrollment.objects.get(id=enrollment_id, subject__assigned_instructor=instructor)
grade_lookup(i, eid) ==
    {e \in enrollments : e.id = eid /\ assigned_instructor[e.subject] = i}

\* grade with the notification addressed to the calling instructor
grade_notifies_caller(i, eid, v) ==
    IF invalid_range(v)
    THEN /\ Returns("grade", v, "invalid range", 0)
         /\ UNCHANGED store
    ELSE IF grade_lookup(i, eid) = {}
    THEN /\ Returns("grade", v, "DoesNotExist", 0)
         /\ UNCHANGED store
    ELSE LET e == CHOOSE x \in grade_lookup(i, eid) : TRUE
             g == round_grade(v)
             graded == [e EXCEPT !.grade = g, !.state = grade_state(g)]
         IN /\ Len(notifications) < MaxNotifications
            /\ enrollments' = (enrollments \ {e}) \cup {graded}
            /\ notifications' = Append(notifications,
                   [user |-> i, type |-> "grade",
                    message |-> <<"Grade", g, e.subject>>,
                    created |-> now, read |-> FALSE])
            /\ Returns("grade", v, "ok", e.id)
            /\ UNCHANGED <<now, users, role, student, instructor, profile_seq,
                           assigned_instructor, next_id>>

grade(i, eid, v) ==
    IF invalid_range(v)
    THEN /\ Returns("grade", v, "invalid range", 0)
         /\ UNCHANGED store
    ELSE IF grade_lookup(i, eid) = {}
    THEN /\ Returns("grade", v, "DoesNotExist", 0)
         /\ UNCHANGED store
    ELSE LET e == CHOOSE x \in grade_lookup(i, eid) : TRUE
             g == round_grade(v)
             graded == [e EXCEPT !.grade = g, !.state = grade_state(g)]
         IN /\ Len(notifications) < MaxNotifications
            /\ enrollments' = (enrollments \ {e}) \cup {graded}
            /\ notifications' = Append(notifications,
                   [user |-> e.student, type |-> "grade",
                    message |-> <<"Grade", g, e.subject>>,
                    created |-> now, read |-> FALSE])
            /\ Returns("grade", v, "ok", e.id)
            /\ UNCHANGED <<now, users, role, student, instructor, profile_seq,
                           assigned_instructor, next_id>>

\* --------------------------------------------------------- close_subject
\* Enrollment.objects.filter(subject_id=subject_id, subject__assigned_instructor=instructor)
students_by_subject(i, s) ==
    {e \in enrollments : e.subject = s /\ assigned_instructor[e.subject] = i}

\* close_subject without the null-grade check
close_blocked_only_empty(i, s) == students_by_subject(i, s) = {}

close_blocked(i, s) ==
    \/ students_by_subject(i, s) = {}
    \/ \E e \in students_by_subject(i, s) : e.grade = NoGrade

close_subject(i, s) ==
    IF close_blocked(i, s)
    THEN /\ Returns("close_subject", NoValue, "false", 0)
         /\ UNCHANGED store
    ELSE /\ enrollments' = (enrollments \ students_by_subject(i, s))
                \cup {[e EXCEPT !.state = "closed"] : e \in students_by_subject(i, s)}
         /\ Returns("close_subject", NoValue, "true", 0)
         /\ UNCHANGED <<now, users, role, student, instructor, profile_seq,
                        assigned_instructor, next_id, notifications>>

\* ----------------------------------------------------- assign_instructor
\* the target user looked up by Instructor profile instead of by role
assign_instructor_by_profile(sid, uid) ==
    IF sid \notin Subjects \/ uid \notin users
    THEN /\ Returns("assign_instructor", NoValue, "DoesNotExist", 0)
         /\ UNCHANGED store
    ELSE IF instructor[uid] = NoProfile
    THEN /\ Returns("assign_instructor", NoValue, "DoesNotExist", 0)
         /\ UNCHANGED store
    ELSE /\ assigned_instructor' = [assigned_instructor EXCEPT ![sid] = uid]
         /\ Returns("assign_instructor", NoValue, "ok", 0)
         /\ UNCHANGED <<now, users, role, student, instructor, profile_seq,
                        enrollments, next_id, notifications>>

assign_instructor(sid, uid) ==
    IF sid \notin Subjects \/ uid \notin users
    THEN /\ Returns("assign_instructor", NoValue, "DoesNotExist", 0)
         /\ UNCHANGED store
    ELSE IF role[uid] # "instructor"
    THEN /\ Returns("assign_instructor", NoValue, "DoesNotExist", 0)
         /\ UNCHANGED store
    ELSE /\ assigned_instructor' = [assigned_instructor EXCEPT ![sid] = uid]
         /\ Returns("assign_instructor", NoValue, "ok", 0)
         /\ UNCHANGED <<now, users, role, student, instructor, profile_seq,
                        enrollments, next_id, notifications>>

\* ----------------------------------------------------------- create_user
\* the notification of the post_save receiver
Welcome(u) ==
    [user |-> u, type |-> "welcome", message |-> <<"User created">>,
     created |-> now, read |-> FALSE]

\* the post_save receiver of User, for a row that was just created with role r
create_profile(u, r) ==
    IF r # NoRole
    THEN /\ student' = IF r = "student"
                       THEN [student EXCEPT ![u] = StudentDefaultCredits] ELSE student
         /\ instructor' = IF r = "instructor"
                          THEN [instructor EXCEPT ![u] = InstructorDefaultCredits] ELSE instructor
         /\ profile_seq' = [student |-> profile_seq.student + (IF r = "student" THEN 1 ELSE 0),
                            instructor |-> profile_seq.instructor + (IF r = "instructor" THEN 1 ELSE 0)]
         /\ Len(notifications) < MaxNotifications
         /\ notifications' = Append(notifications, Welcome(u))
    ELSE UNCHANGED <<student, instructor, profile_seq, notifications>>

\* a new User row saved with role r (NoRole when the role is left null); the
\* username is unique
create_user(u, r) ==
    IF u \in users
    THEN /\ Returns("create_user", NoValue, "exists", 0)
         /\ UNCHANGED store
    ELSE /\ users' = users \cup {u}
         /\ role' = [role EXCEPT ![u] = r]
         /\ create_profile(u, r)
         /\ Returns("create_user", NoValue, "created", 0)
         /\ UNCHANGED <<now, assigned_instructor, enrollments, next_id>>

\* ----------------------------------------------------------- assign_role
\* assign_role that keeps one profile per user: the profile of the role the
\* user leaves is deleted
assign_role_exclusive(uid, role_name) ==
    IF uid \notin users
    THEN /\ Returns("assign_role", NoValue, "DoesNotExist", 0)
         /\ UNCHANGED store
    ELSE IF role_name \notin ROLE_TYPES
    THEN /\ Returns("assign_role", NoValue, "Http404", 0)
         /\ UNCHANGED store
    ELSE LET new_student == role_name = "student" /\ student[uid] = NoProfile
             new_instructor == role_name = "instructor" /\ instructor[uid] = NoProfile
         IN /\ role' = [role EXCEPT ![uid] = role_name]
            /\ student' = [student EXCEPT ![uid] =
                               IF role_name # "student" THEN NoProfile
                               ELSE IF new_student THEN StudentDefaultCredits ELSE @]
            /\ instructor' = [instructor EXCEPT ![uid] =
                                  IF role_name # "instructor" THEN NoProfile
                                  ELSE IF new_instructor THEN InstructorDefaultCredits ELSE @]
            /\ profile_seq' = [student |-> profile_seq.student + (IF new_student THEN 1 ELSE 0),
                               instructor |-> profile_seq.instructor + (IF new_instructor THEN 1 ELSE 0)]
            /\ Returns("assign_role", NoValue, "ok", 0)
            /\ UNCHANGED <<now, users, assigned_instructor, enrollments, next_id, notifications>>

\* assign_role that welcomes the user when it creates a profile
assign_role_notifying(uid, role_name) ==
    IF uid \notin users
    THEN /\ Returns("assign_role", NoValue, "DoesNotExist", 0)
         /\ UNCHANGED store
    ELSE IF role_name \notin ROLE_TYPES
    THEN /\ Returns("assign_role", NoValue, "Http404", 0)
         /\ UNCHANGED store
    ELSE LET new_student == role_name = "student" /\ student[uid] = NoProfile
             new_instructor == role_name = "instructor" /\ instructor[uid] = NoProfile
         IN /\ role' = [role EXCEPT ![uid] = role_name]
            /\ student' = IF new_student
                          THEN [student EXCEPT ![uid] = StudentDefaultCredits]
                          ELSE student
            /\ instructor' = IF new_instructor
                             THEN [instructor EXCEPT ![uid] = InstructorDefaultCredits]
                             ELSE instructor
            /\ profile_seq' = [student |-> profile_seq.student + (IF new_student THEN 1 ELSE 0),
                               instructor |-> profile_seq.instructor + (IF new_instructor THEN 1 ELSE 0)]
            /\ Returns("assign_role", NoValue, "ok", 0)
            /\ notifications' = IF new_student \/ new_instructor
                                THEN Append(notifications, Welcome(uid))
                                ELSE notifications
            /\ UNCHANGED <<now, users, assigned_instructor, enrollments, next_id>>

assign_role(uid, role_name) ==
    IF uid \notin users
    THEN /\ Returns("assign_role", NoValue, "DoesNotExist", 0)
         /\ UNCHANGED store
    ELSE IF role_name \notin ROLE_TYPES
    THEN /\ Returns("assign_role", NoValue, "Http404", 0)
         /\ UNCHANGED store
    ELSE LET new_student == role_name = "student" /\ student[uid] = NoProfile
             new_instructor == role_name = "instructor" /\ instructor[uid] = NoProfile
         IN /\ role' = [role EXCEPT ![uid] = role_name]
            /\ student' = IF new_student
                          THEN [student EXCEPT ![uid] = StudentDefaultCredits]
                          ELSE student
            /\ instructor' = IF new_instructor
                             THEN [instructor EXCEPT ![uid] = InstructorDefaultCredits]
                             ELSE instructor
            /\ profile_seq' = [student |-> profile_seq.student + (IF new_student THEN 1 ELSE 0),
                               instructor |-> profile_seq.instructor + (IF new_instructor THEN 1 ELSE 0)]
            /\ Returns("assign_role", NoValue, "ok", 0)
            /\ UNCHANGED <<now, users, assigned_instructor, enrollments, next_id, notifications>>

\* ------------------------------------------------- get_admin_statistics
\* round(x, 2) of the quotient 100 * n / total, in hundredths: the nearest
\* hundredth, a tie going to the even one
round_2(n, total) ==
    LET q == (10000 * n) \div total
        r == (10000 * n) % total
    IN IF 2 * r < total THEN q
       ELSE IF 2 * r > total THEN q + 1
       ELSE IF q % 2 = 0 THEN q ELSE q + 1

\* the rates taken over every enrollment instead of the approved and failed
closed_enrollments_all == enrollments

\* Enrollment.objects.filter(state__in=["approved", "failed"])
closed_enrollments == {e \in enrollments : e.state \in {"approved", "failed"}}

\* approval_rate and failure_rate of the statistics
get_admin_statistics ==
    LET total_closed == Cardinality(closed_enrollments)
        approved == Cardinality({e \in closed_enrollments : e.state = "approved"})
        failed == Cardinality({e \in closed_enrollments : e.state = "failed"})
        approval_rate == IF total_closed > 0 THEN round_2(approved, total_closed) ELSE 0
        failure_rate == IF total_closed > 0 THEN round_2(failed, total_closed) ELSE 0
    IN /\ Returns("statistics", <<approval_rate, failure_rate>>, "ok", 0)
       /\ UNCHANGED store

\* ------------------------------------------------------------------- gpa
RECURSIVE SumGrades(_)
SumGrades(rows) ==
    IF rows = {} THEN 0
    ELSE LET e == CHOOSE x \in rows : TRUE
         IN e.grade + SumGrades(rows \ {e})

\* the average taken over the approved enrollments alone
enrolled_with_grades_approved(u) ==
    {e \in enrollments : e.student = u /\ e.state = "approved"}

\* Enrollment.objects.filter(student=user).exclude(grade__isnull=True)
enrolled_with_grades(u) == {e \in enrollments : e.student = u /\ e.grade # NoGrade}

\* the average of the grades, kept as the exact quotient <<sum, number>>;
\* Decimal("0.0") is <<0, 1>>
gpa(u) ==
    LET rows == enrolled_with_grades(u)
        avg == IF rows = {} THEN <<0, 1>> ELSE <<SumGrades(rows), Cardinality(rows)>>
    IN /\ Returns("gpa", avg, "ok", 0)
       /\ UNCHANGED store

\* ------------------------------------------------------- the role gates
\* request.user of a request without valid credentials
Anonymous == "anonymous"

IsAuthenticated(c) == c # Anonymous /\ c \in users

\* has_permission of the three role classes: authenticated, a role, its name
IsAdmin(c) == IsAuthenticated(c) /\ role[c] # NoRole /\ role[c] = "admin"

\* the instructor gate looking at the Instructor profile instead of the role
IsInstructor_by_profile(c) == IsAuthenticated(c) /\ instructor[c] # NoProfile

IsInstructor(c) == IsAuthenticated(c) /\ role[c] # NoRole /\ role[c] = "instructor"
IsStudent(c) == IsAuthenticated(c) /\ role[c] # NoRole /\ role[c] = "student"

\* the answer of the framework when a permission class refuses: 401 without
\* credentials, 403 with them; the handler is not called
permission_denied(op, c) ==
    /\ Returns(op, NoValue, IF c = Anonymous THEN "401" ELSE "403", 0)
    /\ UNCHANGED store

\* POST students/enroll: [IsAuthenticated, IsStudent], then the decorated view
StudentViewSet_enroll(c, s) ==
    IF IsAuthenticated(c) /\ IsStudent(c)
    THEN validate_prerequisites(c, s)
    ELSE permission_denied("enroll_request", c)

\* POST instructors/grade and instructors/close: [IsAuthenticated, IsInstructor]
InstructorViewSet_grade(c, eid, v) ==
    IF IsAuthenticated(c) /\ IsInstructor(c)
    THEN grade(c, eid, v)
    ELSE permission_denied("grade", c)

InstructorViewSet_close(c, s) ==
    IF IsAuthenticated(c) /\ IsInstructor(c)
    THEN close_subject(c, s)
    ELSE permission_denied("close_subject", c)

\* POST users/{id}/assign_role and GET users/statistics: [IsAuthenticated, IsAdmin]
UserViewSet_assign_role(c, uid, role_name) ==
    IF IsAuthenticated(c) /\ IsAdmin(c)
    THEN assign_role(uid, role_name)
    ELSE permission_denied("assign_role", c)

\* get_admin_statistics only counts and averages
UserViewSet_statistics(c) ==
    IF IsAuthenticated(c) /\ IsAdmin(c)
    THEN get_admin_statistics
    ELSE permission_denied("statistics", c)

\* GET users/: the list of the viewset, under its class-level
\* permission_classes [IsAuthenticated]
UserViewSet_list(c) ==
    IF IsAuthenticated(c)
    THEN /\ Returns("list_users", NoValue, "ok", 0)
         /\ UNCHANGED store
    ELSE permission_denied("list_users", c)

\* POST subjects/{id}/assign_instructor: get_permissions gives [IsAdmin]
SubjectViewSet_assign_instructor(c, sid, uid) ==
    IF IsAdmin(c)
    THEN assign_instructor(sid, uid)
    ELSE permission_denied("assign_instructor", c)

\* ------------------------------------------- purge_old_notifications
\* the purge without the read filter
purge_old_and_unread ==
    LET limit == now - RetentionDays
    IN /\ notifications' = SelectSeq(notifications, LAMBDA n : ~(n.created < limit))
       /\ Returns("purge", NoValue, "ok", 0)
       /\ UNCHANGED <<now, users, role, student, instructor, profile_seq,
                      assigned_instructor, enrollments, next_id>>

\* Notification.objects.filter(created__lt=limit, read=True).delete()
purge_old_notifications ==
    LET limit == now - RetentionDays
    IN /\ notifications' = SelectSeq(notifications, LAMBDA n : ~(n.created < limit /\ n.read))
       /\ Returns("purge", NoValue, "ok", 0)
       /\ UNCHANGED <<now, users, role, student, instructor, profile_seq,
                      assigned_instructor, enrollments, next_id>>

\* d days pass
tick(d) ==
    /\ now + d <= MaxNow
    /\ now' = now + d
    /\ Returns("tick", NoValue, "ok", 0)
    /\ UNCHANGED <<users, role, student, instructor, profile_seq,
                   assigned_instructor, enrollments, next_id, notifications>>

Init ==
    /\ now = 0
    /\ credits = CatalogueCredits
    /\ requests = NoRequests
    /\ users = Users
    /\ profile_seq = [student |-> 2, instructor |-> 1]
    /\ role = [u \in Users |-> CASE u = "u1" -> "student" [] u = "u2" -> "student"
                                 [] u = "u3" -> "instructor" [] OTHER -> "student"]
    /\ student = [u \in Users |-> IF u \in {"u1", "u2"} THEN StudentDefaultCredits ELSE NoProfile]
    /\ instructor = [u \in Users |-> IF u = "u3" THEN InstructorDefaultCredits ELSE NoProfile]
    /\ assigned_instructor = [s \in Subjects |-> IF s = "s3" THEN NoUser ELSE "u3"]
    /\ enrollments = {}
    /\ next_id = 1
    /\ notifications = <<>>
    /\ last = NoCall

\* callers of the instructor operations: the instructor u3 and a user who is
\* assigned to no subject
Callers == {"u3", "u4"}

\* the (user, subject) pairs of the enroll calls: u1 with every subject, and
\* each other user with s1
EnrollPairs == {<<"u1", s>> : s \in Subjects} \cup {<<u, "s1">> : u \in Users}

EnrollRequest == \E x \in EnrollPairs : validate_prerequisites(x[1], x[2])
Grade == \E i \in Callers, eid \in 1..next_id, v \in GradeInputs : grade(i, eid, v)
CloseSubject == \E i \in Callers, s \in Subjects : close_subject(i, s)
AssignInstructor ==
    \E sid \in {"s3", "s9"}, uid \in Users \cup {"u9"} : assign_instructor(sid, uid)

Next ==
    \/ EnrollRequest
    \/ Grade
    \/ CloseSubject
    \/ AssignInstructor

Spec == Init /\ [][Next]_vars

\* ---- the service functions called directly (enroll without the gate)
Enroll == \E x \in {<<"u1", "s1">>, <<"u1", "s2">>, <<"u2", "s1">>} : enroll(x[1], x[2])

NextService ==
    \/ Enroll
    \/ Grade
    \/ CloseSubject

SpecService == Init /\ [][NextService]_vars

\* ---- grade over the whole range of values, one call on a store with two
\* enrollments: one of s1 (assigned to u3) in any state the lifecycle gives
\* it, and an ungraded one of s2 (assigned to nobody)
\* every tenth from -0.1 to 5.1; the ties between two tenths next to 0.0,
\* 2.5, 3.0 and 5.0, each with a residue below, at and above the tie; both
\* bounds with a residue on either side; some values between a tenth and a tie
GradeRange ==
    {<<10 * j, 0>> : j \in -1..51}
        \cup {<<10 * j + 5, e>> : j \in {0, 1, 24, 25, 28, 29, 30, 48, 49}, e \in {-1, 0, 1}}
        \cup {<<0, -1>>, <<0, 1>>, <<500, -1>>, <<500, 1>>}
        \cup {<<k, 0>> : k \in {-1, 1, 291, 294, 296, 299, 499, 501}}

PriorStates == {<<"enrolled", NoGrade>>, <<"approved", 30>>, <<"closed", 45>>}

InitGrade ==
    /\ now = 0
    /\ credits = CatalogueCredits
    /\ requests = NoRequests
    /\ users = Users
    /\ profile_seq = [student |-> 2, instructor |-> 1]
    /\ role = [u \in Users |-> IF u = "u3" THEN "instructor" ELSE "student"]
    /\ student = [u \in Users |-> IF u \in {"u1", "u2"} THEN StudentDefaultCredits ELSE NoProfile]
    /\ instructor = [u \in Users |-> IF u = "u3" THEN InstructorDefaultCredits ELSE NoProfile]
    /\ assigned_instructor = [s \in Subjects |-> IF s = "s1" THEN "u3" ELSE NoUser]
    /\ \E p \in PriorStates :
          enrollments = {[id |-> 1, student |-> "u1", subject |-> "s1", state |-> p[1], grade |-> p[2]],
                         [id |-> 2, student |-> "u2", subject |-> "s2", state |-> "enrolled", grade |-> NoGrade]}
    /\ next_id = 3
    /\ notifications = [k \in 1..(MaxNotifications - 1) |-> Welcome(IF k = 1 THEN "u1" ELSE IF k = 2 THEN "u2" ELSE "u3")]
    /\ last = NoCall

GradeAny == \E i \in Callers, eid \in 1..next_id, v \in GradeRange : grade(i, eid, v)

NextGrade == GradeAny

SpecGrade == InitGrade /\ [][NextGrade]_vars

\* ---- the accounts operations on the store the migrations leave: the seeded
\* admin u2, instructor u3 and student u4, created by the seed migration with
\* their roles and without profiles or notifications; u1 is not yet a user
InitAccounts ==
    /\ now = 0
    /\ credits = CatalogueCredits
    /\ requests = NoRequests
    /\ users = {"u2", "u3", "u4"}
    /\ role = [u \in Users |-> CASE u = "u2" -> "admin" [] u = "u3" -> "instructor"
                                 [] u = "u4" -> "student" [] OTHER -> NoRole]
    /\ student = [u \in Users |-> NoProfile]
    /\ instructor = [u \in Users |-> NoProfile]
    /\ profile_seq = [student |-> 0, instructor |-> 0]
    /\ assigned_instructor = [s \in Subjects |-> NoUser]
    /\ enrollments = {}
    /\ next_id = 1
    /\ notifications = <<>>
    /\ last = NoCall

CreateUser == \E u \in {"u1", "u4"}, r \in ROLE_TYPES \cup {NoRole} : create_user(u, r)
AssignRole ==
    \E uid \in {"u1", "u3", "u4"}, role_name \in ROLE_TYPES \cup {"guest"} :
        assign_role(uid, role_name)

\* assign_instructor for two subjects of the catalogue and an id that is none
AssignInstructorIds == {"s1", "s3", "s9"}
AssignInstructorUsers == {"u1", "u3", "u4"}
AssignInstructorAccounts ==
    \E sid \in AssignInstructorIds, uid \in AssignInstructorUsers : assign_instructor(sid, uid)

NextAccounts ==
    \/ CreateUser
    \/ AssignRole
    \/ AssignInstructorAccounts

SpecAccounts == InitAccounts /\ [][NextAccounts]_vars

\* ---- the purge on a table of two notifications of the seeded student, each
\* read or unread and created on day 0 or on day 30, the day the run starts;
\* the clock advances by 30 or 31 days at a time, and a user created with a
\* role adds a welcome row
TickDays == {30, 31}
CreatedDays == {0, 30}

InitPurge ==
    /\ now = 30
    /\ credits = CatalogueCredits
    /\ requests = NoRequests
    /\ users = {"u2", "u3", "u4"}
    /\ role = [u \in Users |-> CASE u = "u2" -> "admin" [] u = "u3" -> "instructor"
                                 [] u = "u4" -> "student" [] OTHER -> NoRole]
    /\ student = [u \in Users |-> NoProfile]
    /\ instructor = [u \in Users |-> NoProfile]
    /\ profile_seq = [student |-> 0, instructor |-> 0]
    /\ assigned_instructor = [s \in Subjects |-> NoUser]
    /\ enrollments = {}
    /\ next_id = 1
    /\ \E c1 \in CreatedDays, c2 \in CreatedDays, r1 \in BOOLEAN, r2 \in BOOLEAN :
          notifications =
              <<[user |-> "u4", type |-> "grade", message |-> <<"Grade", 30, "s1">>,
                 created |-> c1, read |-> r1],
                [user |-> "u4", type |-> "grade", message |-> <<"Grade", 45, "s2">>,
                 created |-> c2, read |-> r2]>>
    /\ last = NoCall

Tick == \E d \in TickDays : tick(d)
Purge == purge_old_notifications
CreateUserPurge == \E r \in {"student", NoRole} : create_user("u1", r)

NextPurge ==
    \/ Tick
    \/ Purge
    \/ CreateUserPurge

SpecPurge == InitPurge /\ [][NextPurge]_vars

\* ---- the endpoints behind their gates: a student u1, the admin u2, the
\* instructor u3 of s1 and the seeded student u4, with the admin changing the
\* roles of u1 and u3 between the requests
GateCallers == {"u1", "u2", "u3", Anonymous}
GateTargets == {"u1", "u3"}

InitGate ==
    /\ now = 0
    /\ credits = CatalogueCredits
    /\ requests = NoRequests
    /\ users = Users
    /\ role = [u \in Users |-> CASE u = "u2" -> "admin" [] u = "u3" -> "instructor"
                                 [] OTHER -> "student"]
    /\ student = [u \in Users |-> IF u = "u1" THEN StudentDefaultCredits ELSE NoProfile]
    /\ instructor = [u \in Users |-> IF u = "u3" THEN InstructorDefaultCredits ELSE NoProfile]
    /\ profile_seq = [student |-> 1, instructor |-> 1]
    /\ assigned_instructor = [s \in Subjects |-> IF s = "s1" THEN "u3" ELSE NoUser]
    /\ enrollments = {}
    /\ next_id = 1
    /\ notifications = <<>>
    /\ last = NoCall

\* the subject_id of the enroll requests: a subject, an id without a subject
\* and the absent id
NoSubjectId == "null"
EnrollSubjectIds == {"s1", "s9", NoSubjectId}
EnrollByCaller == \E c \in GateCallers, s \in EnrollSubjectIds : StudentViewSet_enroll(c, s)
GradeByCaller ==
    \E c \in GateCallers, eid \in 1..next_id, v \in GradeInputs : InstructorViewSet_grade(c, eid, v)
CloseByCaller == \E c \in GateCallers : InstructorViewSet_close(c, "s1")
AssignRoleByCaller ==
    \E c \in GateCallers, uid \in GateTargets, role_name \in {"student", "instructor"} :
        UserViewSet_assign_role(c, uid, role_name)
AssignInstructorByCaller ==
    \E c \in GateCallers, uid \in GateTargets : SubjectViewSet_assign_instructor(c, "s1", uid)
StatisticsByCaller == \E c \in GateCallers : UserViewSet_statistics(c)
ListByCaller == \E c \in GateCallers : UserViewSet_list(c)

NextGate ==
    \/ EnrollByCaller
    \/ GradeByCaller
    \/ CloseByCaller
    \/ AssignRoleByCaller
    \/ AssignInstructorByCaller
    \/ StatisticsByCaller
    \/ ListByCaller

SpecGate == InitGate /\ [][NextGate]_vars

\* ---- the statistics and the gpa on stores given as input: six students
\* with their profiles and up to MaxStatsRows enrollments
MaxStatsRows == 18
StatsUsers == <<"u1", "u2", "u3", "u4", "u5", "u6">>
StatsSubjects == <<"s1", "s2", "s3">>

\* the k-th pair, all of s1 first, then s2, then s3: a student with a row of
\* s3 has rows of both its prerequisites
StatsRow(k, st, g) ==
    [id |-> k, student |-> StatsUsers[((k - 1) % 6) + 1],
     subject |-> StatsSubjects[((k - 1) \div 6) + 1], state |-> st, grade |-> g]

\* a approved, f failed and c closed enrollments, then n ungraded ones
StatsTable(a, f, c, n) ==
    {StatsRow(k, "approved", 40) : k \in 1..a}
        \cup {StatsRow(k, "failed", 20) : k \in (a + 1)..(a + f)}
        \cup {StatsRow(k, "closed", 45) : k \in (a + f + 1)..(a + f + c)}
        \cup {StatsRow(k, "enrolled", NoGrade) : k \in (a + f + c + 1)..(a + f + c + n)}

\* what the one enrollment of u1 in a subject can be
StatsCells ==
    {<<"none", NoGrade>>, <<"enrolled", NoGrade>>, <<"failed", 20>>, <<"approved", 30>>,
     <<"approved", 40>>, <<"approved", 50>>, <<"closed", 20>>, <<"closed", 50>>}

\* the rows of u1 for the cells of s1, s2 and s3; a row of s3 only next to
\* graded rows of s1 and s2
StudentTable(c1, c2, c3) ==
    {[id |-> 1, student |-> "u1", subject |-> "s1", state |-> c1[1], grade |-> c1[2]],
     [id |-> 2, student |-> "u1", subject |-> "s2", state |-> c2[1], grade |-> c2[2]],
     [id |-> 3, student |-> "u1", subject |-> "s3", state |-> c3[1], grade |-> c3[2]]}
        \ {[id |-> i, student |-> "u1", subject |-> s, state |-> "none", grade |-> NoGrade] :
               i \in 1..3, s \in Subjects}

InitStats ==
    /\ now = 0
    /\ credits = CatalogueCredits
    /\ requests = NoRequests
    /\ users = {StatsUsers[k] : k \in 1..6}
    /\ role = [u \in users |-> "student"]
    /\ student = [u \in users |-> StudentDefaultCredits]
    /\ instructor = [u \in users |-> NoProfile]
    /\ profile_seq = [student |-> 6, instructor |-> 0]
    /\ assigned_instructor = [s \in Subjects |-> NoUser]
    /\ \/ \E a \in 0..10, f \in 0..5, c \in 0..2, n \in 0..1 :
             /\ a + f + c + n <= MaxStatsRows
             /\ enrollments = StatsTable(a, f, c, n)
       \/ \E c1 \in StatsCells, c2 \in StatsCells, c3 \in StatsCells :
             /\ c3[1] # "none" => c1[2] # NoGrade /\ c2[2] # NoGrade
             /\ enrollments = StudentTable(c1, c2, c3)
    /\ next_id = MaxStatsRows + 1
    /\ notifications = <<>>
    /\ last = NoCall

Statistics == get_admin_statistics
Gpa == \E u \in {"u1", "u2"} : gpa(u)

NextStats ==
    \/ Statistics
    \/ Gpa

SpecStats == InitStats /\ [][NextStats]_vars

\* ---- requests served concurrently. No handler opens a transaction, so
\* every ORM statement commits on its own and the statements of different
\* requests interleave; a request keeps what it has read in its own record.
RequestIds == {"r1", "r2", "r3"}
NoRow == [id |-> 0, student |-> NoUser, subject |-> "none", state |-> "none", grade |-> NoGrade]
Request(op, pc, u, s, eid, v) ==
    [op |-> op, pc |-> pc, user |-> u, subject |-> s, eid |-> eid, value |-> v,
     row |-> NoRow, result |-> "none"]
Idle == Request("none", "done", NoUser, "none", 0, NoValue)

\* the request goes on to its next statement
Goto(r, pc) ==
    /\ requests' = [requests EXCEPT ![r].pc = pc]
    /\ UNCHANGED last

\* the request is answered
Finish(r, result, ret) ==
    /\ requests' = [requests EXCEPT ![r].pc = "done", ![r].result = result]
    /\ last' = Call(requests[r].op, requests[r].value, result, ret)

\* validate_prerequisites: the answer of can_enroll
enroll_can_enroll(r) ==
    LET q == requests[r]
        c == can_enroll(q.user, q.subject)
    IN /\ q.op = "enroll_request" /\ q.pc = "can_enroll"
       /\ IF c[1] THEN Goto(r, "get") ELSE Finish(r, c[2], 0)
       /\ UNCHANGED store

\* get_or_create: the lookup of the row
enroll_get(r) ==
    LET q == requests[r]
        found == {e \in enrollments : e.student = q.user /\ e.subject = q.subject}
    IN /\ q.op = "enroll_request" /\ q.pc = "get"
       /\ IF found # {}
          THEN Finish(r, "created", (CHOOSE e \in found : TRUE).id)
          ELSE Goto(r, "create")
       /\ UNCHANGED store

\* the insert without the unique constraint on (student, subject)
insert_enrollment_unconstrained(u, s) ==
    LET new == [id |-> next_id, student |-> u, subject |-> s,
                state |-> "enrolled", grade |-> NoGrade]
    IN [rows |-> enrollments \cup {new}, row |-> new, created |-> TRUE]

\* the insert under unique_together = ("student", "subject"): with a row of
\* the pair in the table the insert fails and get_or_create returns that row
insert_enrollment(u, s) == get_or_create(u, s)

\* get_or_create: the insert after a lookup that found nothing
enroll_create(r) ==
    LET q == requests[r]
        c == insert_enrollment(q.user, q.subject)
    IN /\ q.op = "enroll_request" /\ q.pc = "create"
       /\ enrollments' = c.rows
       /\ next_id' = IF c.created THEN next_id + 1 ELSE next_id
       /\ Finish(r, "created", c.row.id)
       /\ UNCHANGED <<now, users, role, student, instructor, profile_seq,
                      assigned_instructor, notifications, credits>>

\* close_subject: if not enrollments.exists()
close_exists(r) ==
    LET q == requests[r]
    IN /\ q.op = "close_subject" /\ q.pc = "exists"
       /\ IF students_by_subject(q.user, q.subject) = {}
          THEN Finish(r, "false", 0)
          ELSE Goto(r, "null_check")
       /\ UNCHANGED store

\* close_subject: if enrollments.filter(grade__isnull=True).exists()
close_null_check(r) ==
    LET q == requests[r]
    IN /\ q.op = "close_subject" /\ q.pc = "null_check"
       /\ IF \E e \in students_by_subject(q.user, q.subject) : e.grade = NoGrade
          THEN Finish(r, "false", 0)
          ELSE Goto(r, "update")
       /\ UNCHANGED store

\* close_subject: enrollments.update(state="closed"), the filter evaluated
\* by the UPDATE itself
close_update(r) ==
    LET q == requests[r]
        rows == students_by_subject(q.user, q.subject)
    IN /\ q.op = "close_subject" /\ q.pc = "update"
       /\ enrollments' = (enrollments \ rows) \cup {[e EXCEPT !.state = "closed"] : e \in rows}
       /\ Finish(r, "true", 0)
       /\ UNCHANGED <<now, users, role, student, instructor, profile_seq,
                      assigned_instructor, next_id, notifications, credits>>

\* grade: the range check and the read of the enrollment
grade_get(r) ==
    LET q == requests[r]
    IN /\ q.op = "grade" /\ q.pc = "get"
       /\ IF invalid_range(q.value) THEN Finish(r, "invalid range", 0)
          ELSE IF grade_lookup(q.user, q.eid) = {} THEN Finish(r, "DoesNotExist", 0)
          ELSE /\ requests' = [requests EXCEPT
                      ![r].pc = "save",
                      ![r].row = CHOOSE e \in grade_lookup(q.user, q.eid) : TRUE]
               /\ UNCHANGED last
       /\ UNCHANGED store

\* grade: save() writes every column of the row that was read, then the
\* notification is created
grade_save(r) ==
    LET q == requests[r]
        g == round_grade(q.value)
        graded == [q.row EXCEPT !.grade = g, !.state = grade_state(g)]
    IN /\ q.op = "grade" /\ q.pc = "save"
       /\ enrollments' = {e \in enrollments : e.id # q.row.id} \cup {graded}
       /\ notifications' = Append(notifications,
              [user |-> q.row.student, type |-> "grade",
               message |-> <<"Grade", g, q.row.subject>>,
               created |-> now, read |-> FALSE])
       /\ Finish(r, "ok", q.row.id)
       /\ UNCHANGED <<now, users, role, student, instructor, profile_seq,
                      assigned_instructor, next_id, credits>>

\* two subjects without prerequisites that do not fit one term together
RaceCredits == [s \in Subjects |-> IF s = "s1" THEN 10 ELSE 8]

\* the enrollments of s1 before the requests arrive
RaceTables ==
    {{},
     {[id |-> 1, student |-> "u1", subject |-> "s1", state |-> "enrolled", grade |-> NoGrade]},
     {[id |-> 1, student |-> "u1", subject |-> "s1", state |-> "approved", grade |-> 30]},
     {[id |-> 1, student |-> "u1", subject |-> "s1", state |-> "approved", grade |-> 30],
      [id |-> 2, student |-> "u2", subject |-> "s1", state |-> "failed", grade |-> 20]}}

EnrollRequestOf(u, s) == Request("enroll_request", "can_enroll", u, s, 0, NoValue)
CloseRequestOf(i, s) == Request("close_subject", "exists", i, s, 0, NoValue)
GradeRequestOf(i, eid, v) == Request("grade", "get", i, NoSubjectId, eid, v)

InitRace ==
    /\ now = 0
    /\ credits = RaceCredits
    /\ users = Users
    /\ profile_seq = [student |-> 2, instructor |-> 1]
    /\ role = [u \in Users |-> IF u = "u3" THEN "instructor" ELSE "student"]
    /\ student = [u \in Users |-> IF u \in {"u1", "u2"} THEN StudentDefaultCredits ELSE NoProfile]
    /\ instructor = [u \in Users |-> IF u = "u3" THEN InstructorDefaultCredits ELSE NoProfile]
    /\ assigned_instructor = [s \in Subjects |-> IF s = "s3" THEN NoUser ELSE "u3"]
    /\ enrollments \in RaceTables
    /\ next_id = Cardinality(enrollments) + 1
    /\ notifications = <<>>
    /\ last = NoCall
    /\ \E q1 \in {EnrollRequestOf("u1", "s1"), CloseRequestOf("u3", "s1")},
          q2 \in {EnrollRequestOf("u1", "s1"), EnrollRequestOf("u1", "s2"),
                  EnrollRequestOf("u2", "s1"),
                  GradeRequestOf("u3", 1, <<290, 0>>), GradeRequestOf("u3", 1, <<300, 0>>)},
          q3 \in {Idle, EnrollRequestOf("u1", "s1"), EnrollRequestOf("u2", "s1"),
                  GradeRequestOf("u3", 1, <<300, 0>>)} :
          requests = [r \in RequestIds |-> CASE r = "r1" -> q1 [] r = "r2" -> q2 [] OTHER -> q3]

EnrollCanEnroll == \E r \in RequestIds : enroll_can_enroll(r)
EnrollGet == \E r \in RequestIds : enroll_get(r)
EnrollCreate == \E r \in RequestIds : enroll_create(r)
CloseExists == \E r \in RequestIds : close_exists(r)
CloseNullCheck == \E r \in RequestIds : close_null_check(r)
CloseUpdate == \E r \in RequestIds : close_update(r)
GradeGet == \E r \in RequestIds : grade_get(r)
GradeSave == \E r \in RequestIds : grade_save(r)

NextRace ==
    \/ EnrollCanEnroll
    \/ EnrollGet
    \/ EnrollCreate
    \/ CloseExists
    \/ CloseNullCheck
    \/ CloseUpdate
    \/ GradeGet
    \/ GradeSave

SpecRace == InitRace /\ [][NextRace]_vars

\* ================================================================ claims
RowsOf(u, s) == {e \in enrollments : e.student = u /\ e.subject = s}
StateOf(u, s, st) == \E e \in RowsOf(u, s) : e.state = st
CreditLimit(u) == IF student[u] = NoProfile THEN 0 ELSE student[u]
EnrolledCredits(u) ==
    SumCredits({e \in enrollments : e.student = u /\ e.state = "enrolled"})
Denied(reason) == last.op = "enroll_request" /\ last.result = reason

\* C1: in every state reached by gated enroll requests, grade calls and
\* close_subject calls, the credits of each student's enrollments in state
\* enrolled sum to at most the student's max_credits_per_term (0 without a
\* Student profile).
C1_CreditLimit == \A u \in Users : EnrolledCredits(u) <= CreditLimit(u)

\* a request was answered 201 and a student's enrolled credits are exactly
\* at the limit of the Student profile
C1_Witness ==
    /\ last.op = "enroll_request" /\ last.result = "created"
    /\ \E u \in Users : student[u] # NoProfile /\ EnrolledCredits(u) = CreditLimit(u)

\* C2: for a student-role user without an approved, enrolled or closed
\* enrollment of S, can_enroll answers 'missing prerequisites' exactly when
\* some prerequisite of S is not the subject of an approved enrollment of
\* the user.
C2_MissingPrerequisites ==
    \A u \in Users, s \in Subjects :
        (role[u] = "student"
         /\ ~StateOf(u, s, "approved") /\ ~StateOf(u, s, "enrolled") /\ ~StateOf(u, s, "closed"))
        => (can_enroll(u, s) = <<FALSE, "missing prerequisites">>
            <=> \E p \in prerequisites[s] : ~StateOf(u, p, "approved"))

\* a request was denied while one of two prerequisites was approved and the
\* other was graded but no longer approved
C2_Witness ==
    /\ Denied("missing prerequisites")
    /\ \E u \in Users, s \in Subjects :
          /\ can_enroll(u, s) = <<FALSE, "missing prerequisites">>
          /\ \E p \in prerequisites[s] : StateOf(u, p, "approved")
          /\ \E p \in prerequisites[s] : StateOf(u, p, "closed")

\* the four rules of the eligibility check, each stated on the store
Rule1(u) == role[u] # "student"
Rule2(u, s) == StateOf(u, s, "approved") \/ StateOf(u, s, "enrolled") \/ StateOf(u, s, "closed")
Rule3(u, s) == \E p \in prerequisites[s] : ~StateOf(u, p, "approved")
Rule4(u, s) == EnrolledCredits(u) + credits[s] > CreditLimit(u)

\* C3: can_enroll reports the earliest failing rule in the order not
\* authorized, already taken or enrolled, missing prerequisites, credits
\* exceeded, and answers (true, ok) exactly when no rule fails.
C3_RuleOrder ==
    \A u \in Users, s \in Subjects :
        LET c == can_enroll(u, s)
        IN /\ c[1] <=> ~(Rule1(u) \/ Rule2(u, s) \/ Rule3(u, s) \/ Rule4(u, s))
           /\ c[1] <=> c[2] = "ok"
           /\ c[2] = "not authorized" <=> Rule1(u)
           /\ c[2] = "already taken or enrolled" <=> ~Rule1(u) /\ Rule2(u, s)
           /\ c[2] = "missing prerequisites" <=> ~Rule1(u) /\ ~Rule2(u, s) /\ Rule3(u, s)
           /\ c[2] = "credits exceeded"
                <=> ~Rule1(u) /\ ~Rule2(u, s) /\ ~Rule3(u, s) /\ Rule4(u, s)

\* a request was denied for prerequisites while, for a student with a
\* profile, the prerequisite rule and the credit rule both fail
C3_Witness ==
    /\ Denied("missing prerequisites")
    /\ \E u \in Users, s \in Subjects :
          /\ student[u] # NoProfile
          /\ ~Rule1(u) /\ ~Rule2(u, s) /\ Rule3(u, s) /\ Rule4(u, s)

\* C4: for a student-role user, can_enroll answers 'already taken or
\* enrolled' exactly when the user has an enrollment of S in state approved,
\* enrolled or closed; an enrollment in state failed never causes it.
C4_AlreadyTaken ==
    \A u \in Users, s \in Subjects :
        role[u] = "student"
        => /\ can_enroll(u, s) = <<FALSE, "already taken or enrolled">>
                <=> (StateOf(u, s, "approved") \/ StateOf(u, s, "enrolled")
                     \/ StateOf(u, s, "closed"))
           /\ StateOf(u, s, "failed") => can_enroll(u, s)[2] # "already taken or enrolled"

\* a student holds a failed enrollment and a closed one, and a request for
\* a taken subject was denied
C4_Witness ==
    /\ Denied("already taken or enrolled")
    /\ \E u \in Users :
          /\ \E s \in Subjects : StateOf(u, s, "failed")
          /\ \E s \in Subjects : StateOf(u, s, "closed")

\* no two rows of one pair; a repeated enroll call and what it returns
OneRowPerPair ==
    \A e1 \in enrollments, e2 \in enrollments :
        (e1.student = e2.student /\ e1.subject = e2.subject) => e1 = e2
RepeatedEnroll ==
    last'.op = "enroll" =>
        \A u \in Users, s \in Subjects :
            (enroll(u, s) /\ RowsOf(u, s) # {})
            => /\ enrollments' = enrollments
               /\ \E e \in RowsOf(u, s) : last'.ret = e.id

\* C5: enroll is idempotent: a call for a pair that already has a row leaves
\* the Enrollment table as it is and returns that row, and in every state
\* there is at most one row per (student, subject) pair.
C5_EnrollIdempotent == []OneRowPerPair /\ [][RepeatedEnroll]_vars

\* enroll returned a row that is no longer in state enrolled: it is a repeated
\* call for a pair that was enrolled and graded before
C5_Witness ==
    /\ last.op = "enroll"
    /\ \E e \in enrollments : e.id = last.ret /\ e.state # "enrolled"
    /\ OneRowPerPair

\* C6: the enrollment returned by an enroll request answered 201 is in state
\* enrolled with a null grade, also when the student retakes a failed subject.
C6_EnrolledAfterRequest ==
    (last.op = "enroll_request" /\ last.result = "created")
    => \E e \in enrollments : e.id = last.ret /\ e.state = "enrolled" /\ e.grade = NoGrade

\* the range [0.0, 5.0], the nearest tenth, and the effect of a grade call
InRange(v) == (v[1] > 0 \/ (v[1] = 0 /\ v[2] >= 0)) /\ (v[1] < 500 \/ (v[1] = 500 /\ v[2] <= 0))
\* g tenths is a nearest tenth of the value k/100 + e*d
NearestTenth(g, v) ==
    LET diff == 10 * g - v[1]
    IN \/ diff \in -4..4
       \/ diff = 5 /\ v[2] >= 0
       \/ diff = -5 /\ v[2] <= 0
OwnedBy(i, eid) ==
    \E e \in enrollments : e.id = eid /\ assigned_instructor[e.subject] = i
GradeStored ==
    last'.op = "grade" =>
        \A i \in Callers, eid \in 1..next_id :
            (InRange(last'.value) /\ OwnedBy(i, eid) /\ grade(i, eid, last'.value))
            => /\ last'.result = "ok"
               /\ \E old \in enrollments, new \in enrollments' :
                     /\ old.id = eid /\ new.id = eid
                     /\ NearestTenth(new.grade, last'.value)
                     /\ new.state = IF new.grade >= 30 THEN "approved" ELSE "failed"
                     /\ new.student = old.student /\ new.subject = old.subject
                     /\ enrollments' \ {new} = enrollments \ {old}

\* C7: for a value in [0.0, 5.0] and an enrollment whose subject is assigned
\* to the caller, grade succeeds, stores the tenth nearest to the value and
\* sets the state to approved when the stored grade is >= 3.0 and to failed
\* otherwise; every other field and row is left alone.
C7_GradeStored == [][GradeStored]_vars

\* grade stored 3.0 for a value just below 3.0 and the enrollment is approved
C7_Witness ==
    /\ last.op = "grade" /\ last.result = "ok" /\ last.value = <<295, 1>>
    /\ \E e \in enrollments : e.id = last.ret /\ e.grade = 30 /\ e.state = "approved"

\* the outcome of a grade call that does not succeed
GradeRejected ==
    last'.op = "grade" =>
        /\ last'.result # "ok" => UNCHANGED store
        /\ ~InRange(last'.value) => last'.result = "invalid range"
        /\ \A i \in Callers, eid \in 1..next_id :
              (InRange(last'.value) /\ ~OwnedBy(i, eid) /\ grade(i, eid, last'.value))
              => last'.result = "DoesNotExist"

CloseResult ==
    last'.op = "close_subject" =>
        \A i \in Callers, s \in Subjects :
            close_subject(i, s)
            => IF \/ assigned_instructor[s] # i
                  \/ ~\E e \in enrollments : e.subject = s
                  \/ \E e \in enrollments : e.subject = s /\ e.grade = NoGrade
               THEN last'.result = "false" /\ UNCHANGED store
               ELSE /\ last'.result = "true"
                    /\ \A e \in enrollments' : e.subject = s => e.state = "closed"
                    /\ {e.id : e \in enrollments'} = {e.id : e \in enrollments}
                    /\ \A e \in enrollments : e.subject # s => e \in enrollments'

\* C9: close_subject(instructor, S) returns false and changes no enrollment
\* when S has no enrollment under that instructor or some enrollment of S has
\* a null grade; otherwise it returns true and every enrollment of S is closed.
C9_CloseSubject == [][CloseResult]_vars

\* close_subject returned true and two students' enrollments of one subject
\* are closed
C9_Witness ==
    /\ last.op = "close_subject" /\ last.result = "true"
    /\ \E e1 \in enrollments, e2 \in enrollments :
          /\ e1.subject = e2.subject /\ e1.student # e2.student
          /\ e1.state = "closed" /\ e2.state = "closed"

\* a closed row is closed after the step
ClosedStaysClosed ==
    \A e \in enrollments :
        e.state = "closed" => \E x \in enrollments' : x.id = e.id /\ x.state = "closed"

\* C10: closed is terminal: an enrollment in state closed is in state closed
\* after every call.
C10_ClosedTerminal == [][ClosedStaysClosed]_vars

\* a row that has left the state enrolled is not enrolled after the step
NeverBackToEnrolled ==
    \A e \in enrollments :
        e.state # "enrolled" => \E x \in enrollments' : x.id = e.id /\ x.state # "enrolled"

\* C11: no transition returns to enrolled: under enroll, grade and
\* close_subject calls, an enrollment whose state is approved, failed or
\* closed is never in state enrolled afterwards, a repeated enroll call for
\* its pair included.
C11_NoReturnToEnrolled == [][NeverBackToEnrolled]_vars

\* a repeated enroll call returned a row in state failed
C11_Witness ==
    /\ last.op = "enroll"
    /\ \E e \in enrollments : e.id = last.ret /\ e.state = "failed" /\ e.grade # NoGrade

\* a grade that is set keeps its value over the step
GradeSetOnce ==
    \A e \in enrollments :
        e.grade # NoGrade => \E x \in enrollments' : x.id = e.id /\ x.grade = e.grade

WithStudent == {u \in Users : student[u] # NoProfile}
WithInstructor == {u \in Users : instructor[u] # NoProfile}
\* every profile row ever created is the one profile of some user
OneProfilePerUser ==
    /\ profile_seq.student = Cardinality(WithStudent)
    /\ profile_seq.instructor = Cardinality(WithInstructor)
\* a step keeps every profile as it is and creates a row only for a user who
\* had none
ProfilesKept ==
    /\ \A u \in Users : student[u] # NoProfile => student'[u] = student[u]
    /\ \A u \in Users : instructor[u] # NoProfile => instructor'[u] = instructor[u]
    /\ profile_seq'.student - profile_seq.student
          = Cardinality({u \in Users : student[u] = NoProfile /\ student'[u] # NoProfile})
    /\ profile_seq'.instructor - profile_seq.instructor
          = Cardinality({u \in Users : instructor[u] = NoProfile /\ instructor'[u] # NoProfile})

\* C13: profiles are additive and never duplicated: over assign_role calls a
\* Student or Instructor profile that exists is never deleted or replaced,
\* and each user has at most one of each; assigning student, instructor and
\* student again leaves the one original Student profile and creates no
\* second one.
C13_ProfilesAdditive == []OneProfilePerUser /\ [][ProfilesKept]_vars

\* after an assign_role call a user whose role is student holds a Student and
\* an Instructor profile, and exactly one Student row was ever created for
\* the user
C13_Witness ==
    /\ last.op = "assign_role" /\ last.result = "ok"
    /\ \E u \in users : /\ role[u] = "student"
                         /\ student[u] # NoProfile /\ instructor[u] # NoProfile
                         /\ WithStudent = {u} /\ profile_seq.student = 1

\* C14: in every state reached by user creations and completed assign_role
\* calls, every user whose role is student has a Student profile and every
\* user whose role is instructor has an Instructor profile, with the default
\* credit limit (16 and 20).
C14_RoleHasProfile ==
    \A u \in users :
        /\ role[u] = "student" => student[u] = StudentDefaultCredits
        /\ role[u] = "instructor" => instructor[u] = InstructorDefaultCredits

\* the notifications of a step of the accounts operations: assign_role adds
\* none, and a row is appended exactly for a user created with a role
NotifyOnCreate ==
    /\ last'.op = "assign_role" => notifications' = notifications
    /\ notifications' # notifications
          => /\ last'.op = "create_user"
             /\ \E u \in users' \ users :
                   role'[u] # NoRole /\ notifications' = Append(notifications, Welcome(u))
    /\ \A u \in users' \ users :
          IF role'[u] # NoRole
          THEN notifications' = Append(notifications, Welcome(u))
          ELSE notifications' = notifications

\* C15: assign_role creates no notification: a call for any user and role
\* name leaves the notifications unchanged; a welcome notification is
\* appended only when a new user is created with a role, exactly one per
\* such creation.
C15_AssignRoleSilent == [][NotifyOnCreate]_vars

\* assign_role created the Student profile of the seeded student and the
\* only notification is the welcome of the user created with a role
C15_Witness ==
    /\ last.op = "assign_role" /\ last.result = "ok"
    /\ student["u4"] # NoProfile
    /\ notifications = <<Welcome("u1")>>

\* an enroll request step: a denied request answers the reason of can_enroll
\* and leaves the store alone; an allowed one changes nothing but the
\* Enrollment table, and there only rows of the requested pair
EnrollDenied ==
    last'.op = "enroll_request" =>
        /\ last'.result # "created" => UNCHANGED store
        /\ \A x \in EnrollPairs :
              validate_prerequisites(x[1], x[2])
              => IF can_enroll(x[1], x[2])[1]
                 THEN /\ last'.result = "created"
                      /\ UNCHANGED <<now, users, role, student, instructor, profile_seq,
                                     assigned_instructor, notifications>>
                      /\ enrollments \subseteq enrollments'
                      /\ \A e \in enrollments' \ enrollments :
                            e.student = x[1] /\ e.subject = x[2]
                 ELSE /\ last'.result = can_enroll(x[1], x[2])[2]
                      /\ last'.ret = 0
                      /\ UNCHANGED store

\* C16: can_enroll has no side effects: a call leaves users, profiles,
\* subjects, enrollments and notifications unchanged, and an enroll request
\* that can_enroll denies is answered with the denial reason without calling
\* enroll, so no Enrollment row is created or modified.
C16_CanEnrollPure == [][EnrollDenied]_vars

\* a request was denied for credits while the student holds two enrollments
C16_Witness ==
    /\ Denied("credits exceeded")
    /\ \E u \in Users : Cardinality({e \in enrollments : e.student = u}) = 2

\* the result and the effect of an assign_instructor call
AssignInstructorResult ==
    last'.op = "assign_instructor" =>
        \A sid \in AssignInstructorIds, uid \in AssignInstructorUsers :
            assign_instructor(sid, uid)
            => IF sid \notin Subjects \/ uid \notin users \/ role[uid] # "instructor"
               THEN /\ last'.result = "DoesNotExist"
                    /\ assigned_instructor' = assigned_instructor
               ELSE /\ last'.result = "ok"
                    /\ assigned_instructor'[sid] = uid
                    /\ \A s \in Subjects \ {sid} :
                          assigned_instructor'[s] = assigned_instructor[s]

GradeNotifies ==
    IF last'.op = "grade" /\ last'.result = "ok"
    THEN \E e \in enrollments' :
            /\ e.id = last'.ret
            /\ notifications' = Append(notifications,
                   [user |-> e.student, type |-> "grade",
                    message |-> <<"Grade", e.grade, e.subject>>,
                    created |-> now, read |-> FALSE])
    ELSE notifications' = notifications

PurgeExact ==
    IF last'.op = "purge"
    THEN notifications' =
             SelectSeq(notifications,
                       LAMBDA n : ~n.read \/ now - n.created <= 90)
    ELSE /\ Len(notifications') >= Len(notifications)
         /\ SubSeq(notifications', 1, Len(notifications)) = notifications

HoldsRole(c, r) == c \in users /\ role[c] = r
\* the request was refused and the store is as before
Rejected == last'.result \in {"401", "403"} /\ UNCHANGED store
\* every request of a caller without the required role is refused: a step
\* that is not a refusal is the step of no such caller
GateHolds ==
    \/ Rejected
    \/ \A c \in GateCallers :
          /\ (last'.op = "enroll_request" /\ ~HoldsRole(c, "student"))
                => \A s \in EnrollSubjectIds : ~StudentViewSet_enroll(c, s)
          /\ (last'.op = "grade" /\ ~HoldsRole(c, "instructor"))
                => \A eid \in 1..next_id : ~InstructorViewSet_grade(c, eid, last'.value)
          /\ (last'.op = "close_subject" /\ ~HoldsRole(c, "instructor"))
                => ~InstructorViewSet_close(c, "s1")
          /\ (last'.op = "assign_role" /\ ~HoldsRole(c, "admin"))
                => \A uid \in GateTargets, role_name \in {"student", "instructor"} :
                       ~UserViewSet_assign_role(c, uid, role_name)
          /\ (last'.op = "assign_instructor" /\ ~HoldsRole(c, "admin"))
                => \A uid \in GateTargets : ~SubjectViewSet_assign_instructor(c, "s1", uid)
          /\ (last'.op = "statistics" /\ ~HoldsRole(c, "admin"))
                => ~UserViewSet_statistics(c)

\* C20: role gates protect the core: an enroll, grade, close_subject,
\* assign_role, assign_instructor or statistics request from a caller who is
\* unauthenticated or whose role at that time is not the required one
\* (student for enroll, instructor for grade and close, admin for the others)
\* is rejected and leaves users, profiles, subjects, enrollments and
\* notifications unchanged.
C20_RoleGates == [][GateHolds]_vars

\* a grade request was refused with 403 while the user assigned to the
\* subject of an ungraded enrollment holds an Instructor profile but not the
\* instructor role
C20_Witness ==
    /\ last.op = "grade" /\ last.result = "403"
    /\ \E e \in enrollments :
          /\ e.grade = NoGrade
          /\ assigned_instructor[e.subject] # NoUser
          /\ role[assigned_instructor[e.subject]] # "instructor"
          /\ instructor[assigned_instructor[e.subject]] # NoProfile

\* the answer of a list-users request: the list for an admin, a refusal for
\* everybody else
ListAdminOnly ==
    last'.op = "list_users" =>
        \A c \in GateCallers :
            UserViewSet_list(c)
            => IF HoldsRole(c, "admin")
               THEN last'.result = "ok"
               ELSE last'.result \in {"401", "403"}

\* C21: listing users is admin-only: a list-users request from an
\* authenticated caller whose role is student or instructor is rejected as
\* forbidden, and only a caller whose role is admin receives the list.
C21_ListAdminOnly == [][ListAdminOnly]_vars

\* the numbers of enrollments in state approved and in state failed
NApproved == Cardinality({e \in enrollments : e.state = "approved"})
NFailed == Cardinality({e \in enrollments : e.state = "failed"})
\* r hundredths is 100 * n / total to two decimals
TwoDecimals(r, n, total) ==
    LET d == r * total - 10000 * n
    IN 2 * d <= total /\ 2 * d >= 0 - total

\* C22: in the statistics approval_rate and failure_rate are 100 times the
\* number of approved (failed) enrollments over the number of approved or
\* failed ones, to two decimals, enrolled and closed ones left out; both are
\* 0 when none is approved or failed, and 10 approved with 5 failed give
\* 66.67 and 33.33 whatever the number of enrolled and closed ones.
C22_Rates ==
    last.op = "statistics" =>
        /\ NApproved + NFailed = 0 => last.value = <<0, 0>>
        /\ NApproved + NFailed > 0
              => /\ TwoDecimals(last.value[1], NApproved, NApproved + NFailed)
                 /\ TwoDecimals(last.value[2], NFailed, NApproved + NFailed)
        /\ (NApproved = 10 /\ NFailed = 5) => last.value = <<6667, 3333>>

\* the statistics of 10 approved and 5 failed enrollments next to closed and
\* ungraded ones
C22_Witness ==
    /\ last.op = "statistics" /\ last.value = <<6667, 3333>>
    /\ NApproved = 10 /\ NFailed = 5
    /\ \E e \in enrollments : e.state = "closed"
    /\ \E e \in enrollments : e.state = "enrolled"

\* the graded enrollments of u and the sum of their grades
AllRowsOf(u) == {e \in enrollments : e.student = u}
GradedOf(u) == {e \in AllRowsOf(u) : e.grade # NoGrade}
RECURSIVE GradeSum(_)
GradeSum(rows) ==
    IF rows = {} THEN 0
    ELSE LET e == CHOOSE x \in rows : TRUE
         IN e.grade + GradeSum(rows \ {e})
\* the quotient q is the mean of the grades of the graded enrollments of u,
\* and 0 when there is none
MeanOf(q, u) ==
    IF GradedOf(u) = {} THEN q[1] = 0
    ELSE q[1] * Cardinality(GradedOf(u)) = q[2] * GradeSum(GradedOf(u))
GpaIsMean ==
    last'.op = "gpa" =>
        \A u \in {"u1", "u2"} :
            gpa(u) =>
                /\ last'.value[2] > 0
                /\ MeanOf(last'.value, u)
                /\ {e.grade : e \in AllRowsOf(u)} = {50, 40, 30} /\ Cardinality(AllRowsOf(u)) = 3
                      => last'.value[1] = 40 * last'.value[2]

\* C23: gpa(student) is the arithmetic mean of the grades of all of the
\* student's enrollments with a non-null grade, whatever their state, and 0.0
\* when there is none; grades 5.0, 4.0 and 3.0 give exactly 4.0.
C23_GpaIsMean == [][GpaIsMean]_vars

\* the gpa of a student with a failed, a closed and an ungraded enrollment
C23_Witness ==
    /\ last.op = "gpa" /\ last.value = <<70, 2>>
    /\ \E e \in AllRowsOf("u1") : e.state = "failed" /\ e.grade = 20
    /\ \E e \in AllRowsOf("u1") : e.state = "closed" /\ e.grade = 50
    /\ \E e \in AllRowsOf("u1") : e.state = "enrolled"

\* the answers of a client error: the 400 of the decorator with its reason,
\* or a 404
ClientErrors ==
    {"not authorized", "already taken or enrolled", "missing prerequisites",
     "credits exceeded", "Http404"}
UnknownSubjectRefused ==
    last'.op = "enroll_request" =>
        \A c \in GateCallers, s \in EnrollSubjectIds \ Subjects :
            (HoldsRole(c, "student") /\ StudentViewSet_enroll(c, s))
                => last'.result \in ClientErrors /\ enrollments' = enrollments

\* C24: an enroll request by a student that names a subject id which does
\* not exist, or names none, is answered as a client error, not an unhandled
\* failure, and creates no Enrollment row.
C24_UnknownSubjectRefused == [][UnknownSubjectRefused]_vars

\* every request has been answered
AllDone == \A r \in DOMAIN requests : requests[r].pc = "done"
\* the enroll requests for the pair that were answered 201
Enrolled201(u, s) ==
    {r \in DOMAIN requests :
        /\ requests[r].op = "enroll_request" /\ requests[r].pc = "done"
        /\ requests[r].user = u /\ requests[r].subject = s
        /\ requests[r].result = "created"}

\* the credits of a set of subjects, each counted once
RECURSIVE CreditsOf(_)
CreditsOf(subs) ==
    IF subs = {} THEN 0
    ELSE LET s == CHOOSE x \in subs : TRUE
         IN credits[s] + CreditsOf(subs \ {s})

\* C25: under every interleaving of two or more concurrent enroll requests
\* for the same (student, subject) pair, each running can_enroll, the lookup
\* and the insert of get_or_create as separate steps, the store ends with
\* exactly one Enrollment row for the pair and the subject's credits are
\* counted at most once in the student's enrolled credits.
C25_OneRowUnderRace ==
    \A u \in Users, s \in Subjects :
        /\ Cardinality(RowsOf(u, s)) <= 1
        /\ Enrolled201(u, s) # {} => Cardinality(RowsOf(u, s)) = 1
        /\ EnrolledCredits(u) = CreditsOf({x \in Subjects : StateOf(u, x, "enrolled")})

\* three requests for the same pair arrived at the empty table of the pair,
\* all three passed can_enroll before any insert and were answered 201, and
\* the table holds one row
C25_Witness ==
    /\ AllDone
    /\ Cardinality(Enrolled201("u1", "s1")) = 3
    /\ Cardinality(RowsOf("u1", "s1")) = 1
    /\ StateOf("u1", "s1", "enrolled")

\* C26: under every interleaving of close_subject's steps (existence check,
\* null-grade check, bulk update to closed) with concurrent enroll and grade
\* calls on the same subject, no enrollment ever ends in state closed with a
\* null grade.
C26_NoClosedUngraded ==
    \A e \in enrollments : e.state = "closed" => e.grade # NoGrade

\* C27: under every interleaving of two concurrent enroll requests by the
\* same student for two different subjects, each running the can_enroll
\* check and then the enroll insert as separate steps, the sum of credits of
\* the student's enrolled-state enrollments never exceeds the student's
\* max_credits_per_term.
C27_CreditLimitUnderRace ==
    \A u \in Users : EnrolledCredits(u) <= CreditLimit(u)

\* the requests of the given operation that were answered with the result
Answered(op, result) ==
    {r \in DOMAIN requests :
        requests[r].op = op /\ requests[r].pc = "done" /\ requests[r].result = result}

\* C28: each mutation is atomic with respect to the others: under every
\* interleaving of a grade call (read enrollment, then save grade and state)
\* with a close_subject call on the same subject, once close_subject has
\* returned true and the grade call has finished, all enrollments of the
\* subject are in state closed, and no enrollment has a grade set without
\* the state derived from it.
\* (Stated for the grade calls that read their enrollment before it was
\* closed.)
C28_GradeCloseAtomic ==
    (/\ AllDone
     /\ \A r \in DOMAIN requests : requests[r].op \in {"close_subject", "grade", "none"}
     /\ Answered("close_subject", "true") # {}
     /\ Answered("grade", "ok") # {}
     /\ \A r \in Answered("grade", "ok") : requests[r].row.state # "closed")
        => /\ \A e \in enrollments : e.subject = "s1" => e.state = "closed"
           /\ \A e \in enrollments :
                 IF e.grade = NoGrade THEN e.state = "enrolled"
                 ELSE e.state \in {"closed", IF e.grade >= 30 THEN "approved" ELSE "failed"}

\* C29: in every state reached from an empty enrollment table by enroll,
\* grade and close_subject calls executed one at a time, an enrollment is in
\* state enrolled if and only if its grade is null, an approved one has a
\* grade >= 3.0, a failed one a grade < 3.0, a closed one a non-null grade,
\* and every non-null grade lies in [0.0, 5.0].
C29_StateMatchesGrade ==
    \A e \in enrollments :
        /\ e.state \in STATES
        /\ e.state = "enrolled" <=> e.grade = NoGrade
        /\ e.state = "approved" => e.grade >= 30
        /\ e.state = "failed" => e.grade # NoGrade /\ e.grade < 30
        /\ e.state = "closed" => e.grade # NoGrade
        /\ e.grade # NoGrade => e.grade \in 0..50

\* the table holds a closed enrollment, a failed one graded exactly 2.9 and
\* an ungraded one enrolled after the close of its subject
C29_Witness ==
    /\ \E e \in enrollments : e.state = "closed" /\ e.grade = 30
    /\ \E e \in enrollments : e.state = "failed" /\ e.grade = 29
    /\ \E e \in enrollments : e.state = "enrolled" /\ e.grade = NoGrade /\ e.subject = "s1"

\* the student has a grade >= 3.0 in every prerequisite of the subject
PassedPrerequisites(u, s) ==
    \A p \in prerequisites[s] :
        \E e \in enrollments : e.student = u /\ e.subject = p /\ e.grade >= 30
PrerequisiteStable ==
    (last'.op = "close_subject" /\ last'.result = "true") =>
        \A u \in Users, s \in Subjects :
            (/\ prerequisites[s] # {}
             /\ PassedPrerequisites(u, s)
             /\ can_enroll(u, s)[2] # "missing prerequisites")
                => can_enroll(u, s)'[2] # "missing prerequisites"

\* C30: satisfying a prerequisite is stable: if a student has been graded
\* >= 3.0 in every prerequisite of subject S, so that can_enroll does not
\* answer 'missing prerequisites' for S, then can_enroll still does not
\* answer 'missing prerequisites' for S after close_subject has been applied
\* to any of those prerequisite subjects.
C30_PrerequisiteStable == [][PrerequisiteStable]_vars
====
